---- MODULE Spec2Model ----
(***************************************************************************)
(* Model of the student-life application: the study-seat page, the outing  *)
(* (pass) request page and the penalty issuing page, together with the     *)
(* tables, uniqueness constraints, row-level-security policies and the     *)
(* total_penalty trigger of the SQL migrations they talk to.               *)
(*                                                                         *)
(* Storage semantics are those of PostgreSQL: a UNIQUE constraint covers   *)
(* every row of the table whatever its status; the permissive policies of  *)
(* a table are OR-ed; an UPDATE/ALL policy that gives only USING uses the  *)
(* same expression as its WITH CHECK on the new row; a trigger function    *)
(* that is not SECURITY DEFINER runs its statements as the calling user,   *)
(* under that user's policies.  The role lookup that the policies do in    *)
(* profiles is taken to return the caller's role.                          *)
(***************************************************************************)
EXTENDS Integers, FiniteSets, Sequences, TLC

\* ---------------------------------------------------------------- bounds
NumSeats == 3
NumDates == 2
MaxRows == 2
MaxRaceRows == 3
MaxPasses == 1
MaxRecords == 2
MaxListed == 2
NumFetched == 3
MaxNotifs == 2
MaxReads == 2

\* ----------------------------------------------------------------- users
Students == {<<"student", 1>>, <<"student", 2>>}
Staff == {<<"teacher", 1>>, <<"admin", 1>>}
Users == Students \cup Staff
\* the users who have the study page open
StudyUsers == Students

\* profiles.role
role(u) == u[1]

\* EXISTS (SELECT 1 FROM profiles WHERE id = auth.uid() AND role IN ('teacher','admin'))
IsStaff(uid) == role(uid) \in {"teacher", "admin"}

Seats == 1..NumSeats
Dates == 1..NumDates
NoSeat == 0
NoRequest == [seat_id |-> NoSeat, date |-> 0]
NoAlert == [user_id |-> <<>>, text |-> ""]

application_status == {"pending", "approved", "rejected", "cancelled", "completed"}

VARIABLES
  study_applications,   \* table study_applications: set of rows
  studyPage,            \* StudyPage component state of every signed-in user
  studyAlert,           \* the alert() of the study-page handler that ran last
  raced,                \* (seat, date) slots without a row for which two
                        \* users' inserts were awaiting their answer at once
  recancelled,          \* (seat, date) slots whose row, already cancelled,
                        \* was addressed by a handleCancel of its owner
  outing_applications,  \* table outing_applications: set of rows
  outingPage,           \* OutingPage component state of every signed-in user
  outingAlert,          \* the answer shown for the outing call that ran last:
                        \* its text and the status the call asked for
  penalty_records,      \* table penalty_records: set of rows
  penalty_record_targets, \* table penalty_record_targets: committed rows
  notifications,        \* table notifications: set of rows
  total_penalty,        \* column profiles.total_penalty of every user
  givePage,             \* GivePenaltyPage handleSubmit of every staff member:
                        \* the await it is at and what it holds
  giveAlert,            \* the alert() of the give-page handler that ran last
  giveSelect,           \* GivePenaltyPage student picker: selectedStudents,
                        \* directInputStudents and studentModalTab
  authProvider,         \* AuthProvider: user, profile, the auth client's
                        \* session and the calls that are awaiting an answer
  notificationBell      \* NotificationBell of one signed-in user: the local
                        \* notifications and unreadCount, the user's stored
                        \* rows and the calls that are awaiting an answer

seatVars == <<study_applications, studyPage, studyAlert, raced, recancelled>>
passVars == <<outing_applications, outingPage, outingAlert>>
ledgerVars == <<penalty_records, penalty_record_targets, notifications,
                total_penalty, givePage, giveAlert>>
frontVars == <<giveSelect, authProvider, notificationBell>>


\* ------------------------------------------------- storage: study_applications

\* UNIQUE(user_id, date)
UniqueUserDateAlways(rows, new) == FALSE
UniqueUserDate(rows, new) ==
  \E r \in rows : r.user_id = new.user_id /\ r.date = new.date

\* UNIQUE(seat_id, date)
UniqueSeatDateAlways(rows, new) == FALSE
UniqueSeatDate(rows, new) ==
  \E r \in rows : r.seat_id = new.seat_id /\ r.date = new.date

\* INSERT policies of study_applications (own row, or staff)
StudyInsertCheck(uid, new) == uid = new.user_id \/ IsStaff(uid)

\* UPDATE policies of study_applications: USING on the stored row
StudyUpdateUsing(uid, r) == uid = r.user_id \/ IsStaff(uid)

\* the error code storage answers an insert with ("" = inserted)
StudyInsertError(rows, uid, new) ==
  IF ~StudyInsertCheck(uid, new) THEN "42501"
  ELSE IF UniqueUserDate(rows, new) \/ UniqueSeatDate(rows, new) THEN "23505"
  ELSE ""

\* .update({status:'cancelled'}).eq('seat_id', s).eq('date', d) run as uid
StudyCancelUpdateToggle(rows, uid, s, d) ==
  { IF r.seat_id = s /\ r.date = d /\ StudyUpdateUsing(uid, r)
      THEN [r EXCEPT !.status = IF @ = "cancelled" THEN "pending"
                                ELSE "cancelled"]
      ELSE r : r \in rows }
\* the cancel update writing status 'completed'
StudyCancelUpdateCompleted(rows, uid, s, d) ==
  { IF r.seat_id = s /\ r.date = d /\ StudyUpdateUsing(uid, r)
      THEN [r EXCEPT !.status = "completed"] ELSE r : r \in rows }
StudyCancelUpdate(rows, uid, s, d) ==
  { IF r.seat_id = s /\ r.date = d /\ StudyUpdateUsing(uid, r)
      THEN [r EXCEPT !.status = "cancelled"] ELSE r : r \in rows }

\* ------------------------------------------------------------ StudyPage

\* fetchData: .eq('date', dateStr).neq('status', 'cancelled')
FetchedApplications(rows, d) ==
  {r \in rows : r.date = d /\ r.status # "cancelled"}

\* the seat of the caller's application in the fetched list (myApplication)
MyApplicationOf(rows, u, d) ==
  IF \E r \in FetchedApplications(rows, d) : r.user_id = u
    THEN (CHOOSE r \in FetchedApplications(rows, d) : r.user_id = u).seat_id
    ELSE NoSeat

\* state of the page after fetchData resolved
Fetched(pg, rows, u) ==
  [pg EXCEPT !.myApplication = MyApplicationOf(rows, u, pg.selectedDate)]

SeatInit ==
  /\ study_applications = {}
  /\ studyPage = [u \in Users |->
        [selectedDate |-> 1, myApplication |-> NoSeat, request |-> NoRequest]]
  /\ studyAlert = NoAlert
  /\ raced = {}
  /\ recancelled = {}

\* fetchData resolving (started by useEffect([selectedDate, user]))
FetchData(u) ==
  /\ studyPage[u].request = NoRequest
  /\ studyPage' = [studyPage EXCEPT ![u] = Fetched(@, study_applications, u)]
  /\ studyPage' # studyPage
  /\ UNCHANGED <<study_applications, studyAlert, raced, recancelled,
               passVars, ledgerVars,
                 frontVars>>

\* changeDate(delta); the fetchData it triggers resolves later
ChangeDate(u, delta) ==
  /\ studyPage[u].request = NoRequest
  /\ studyPage[u].selectedDate + delta \in Dates
  /\ studyPage' = [studyPage EXCEPT ![u].selectedDate = @ + delta]
  /\ UNCHANGED <<study_applications, studyAlert, raced, recancelled,
               passVars, ledgerVars,
                 frontVars>>

\* changeDate(delta) together with the fetchData it triggers
ChangeDateFetched(u, delta) ==
  /\ studyPage[u].request = NoRequest
  /\ studyPage[u].selectedDate + delta \in Dates
  /\ studyPage' = [studyPage EXCEPT ![u] =
        Fetched([@ EXCEPT !.selectedDate = @ + delta], study_applications, u)]
  /\ UNCHANGED <<study_applications, studyAlert, raced, recancelled,
               passVars, ledgerVars,
                 frontVars>>

\* the alert handleApply shows for the insert's error code
ApplyAlertGeneric(err) == IF err = "" THEN "" ELSE "error"
ApplyAlert(err) ==
  IF err = "" THEN "" ELSE IF err = "23505" THEN "duplicate" ELSE "error"

\* the users other than u whose insert for seat s and date d awaits its answer
Rivals(u, s, d) ==
  {v \in Users \ {u} : /\ studyPage[v].request.seat_id = s
                       /\ studyPage[v].request.date = d}

\* the apply button (selectedSeat && canApply) and handleApply(selectedSeat) up
\* to the await of the insert.  selectedSeat is any seat: it is chosen on a
\* date whose list showed it free and survives changeDate.
HandleApplyStart(u, s) ==
  LET d == studyPage[u].selectedDate
  IN /\ studyPage[u].myApplication = NoSeat
     /\ studyPage[u].request = NoRequest
     /\ Cardinality(study_applications) < MaxRaceRows
     /\ studyPage' = [studyPage EXCEPT ![u].request = [seat_id |-> s, date |-> d]]
     /\ raced' = IF /\ Rivals(u, s, d) # {}
                    /\ ~\E r \in study_applications : r.seat_id = s /\ r.date = d
                   THEN raced \cup {<<s, d>>} ELSE raced
     /\ UNCHANGED <<study_applications, studyAlert, recancelled,
                  passVars, ledgerVars,
                 frontVars>>

\* handleApply from the insert's answer to the end
HandleApplyInsert(u) ==
  LET req == studyPage[u].request
      new == [user_id |-> u, seat_id |-> req.seat_id, date |-> req.date,
              status |-> "pending"]
      err == StudyInsertError(study_applications, u, new)
      rows == IF err = "" THEN study_applications \cup {new}
              ELSE study_applications
  IN /\ req # NoRequest
     /\ study_applications' = rows
     /\ studyPage' = [studyPage EXCEPT ![u] =
          IF err = ""
            THEN [Fetched(@, rows, u) EXCEPT !.request = NoRequest]
            ELSE [@ EXCEPT !.request = NoRequest]]
     /\ studyAlert' = [user_id |-> u, text |-> ApplyAlert(err)]
     /\ UNCHANGED <<raced, recancelled, passVars, ledgerVars,
                 frontVars>>

\* handleApply(selectedSeat) as one step: the apply button, the insert, the
\* alert or the fetchData
HandleApply(u, s) ==
  LET new == [user_id |-> u, seat_id |-> s, date |-> studyPage[u].selectedDate,
              status |-> "pending"]
      err == StudyInsertError(study_applications, u, new)
      rows == IF err = "" THEN study_applications \cup {new}
              ELSE study_applications
  IN /\ studyPage[u].myApplication = NoSeat
     /\ studyPage[u].request = NoRequest
     /\ Cardinality(study_applications) < MaxRows
     /\ study_applications' = rows
     /\ studyPage' = [studyPage EXCEPT ![u] =
          IF err = "" THEN Fetched(@, rows, u) ELSE @]
     /\ studyAlert' = [user_id |-> u, text |-> ApplyAlert(err)]
     /\ UNCHANGED <<raced, recancelled, passVars, ledgerVars,
                 frontVars>>

\* handleCancel: update by (seat_id, date), then fetchData
HandleCancel(u) ==
  LET pg == studyPage[u]
      rows == StudyCancelUpdate(study_applications, u,
                                pg.myApplication, pg.selectedDate)
  IN /\ pg.myApplication # NoSeat
     /\ pg.request = NoRequest
     /\ study_applications' = rows
     /\ studyPage' = [studyPage EXCEPT ![u] = Fetched(@, rows, u)]
     /\ studyAlert' = [user_id |-> u, text |-> ""]
     /\ recancelled' = recancelled \cup
          {<<r.seat_id, r.date>> : r \in
             {q \in study_applications :
                /\ q.seat_id = pg.myApplication /\ q.date = pg.selectedDate
                /\ q.user_id = u /\ q.status = "cancelled"}}
     /\ UNCHANGED <<raced, passVars, ledgerVars,
                 frontVars>>


\* a caller sends .update({status}).eq('seat_id', s).eq('date', d) on
\* study_applications through the storage client: the UPDATE policies look at
\* the owner of the row (or the caller's role) and not at its status
StudyDirectUpdate(u, s, d, status) ==
  /\ \E r \in study_applications :
        r.seat_id = s /\ r.date = d /\ StudyUpdateUsing(u, r)
  /\ study_applications' =
       { IF r.seat_id = s /\ r.date = d /\ StudyUpdateUsing(u, r)
           THEN [r EXCEPT !.status = status] ELSE r : r \in study_applications }
  /\ studyAlert' = [user_id |-> u, text |-> ""]
  /\ UNCHANGED <<studyPage, raced, recancelled, passVars, ledgerVars,
                 frontVars>>

\* ------------------------------------------ storage: outing_applications

NoApp == 0
NoUser == <<>>
share_type == {"private", "link", "public"}

\* the stored row with this id
OutingRow(id) == CHOOSE r \in outing_applications : r.id = id

\* the SELECT policy without its share_type = 'link' branch
OutingSelectUsingNoLink(uid, r) ==
  \/ uid = r.user_id
  \/ r.share_type = "public"
  \/ IsStaff(uid)

\* SELECT policy "Users can view own outing applications" (005) and the
\* teachers' ALL policy
OutingSelectUsing(uid, r) ==
  \/ uid = r.user_id
  \/ r.share_type = "public"
  \/ r.share_type = "link"
  \/ IsStaff(uid)

\* UPDATE policies of outing_applications, USING on the stored row:
\* "Users can update own outing applications" OR "Teachers can manage all"
OutingUpdateUsing(uid, r) ==
  \/ (uid = r.user_id /\ r.status = "pending")
  \/ IsStaff(uid)

\* WITH CHECK on the updated row: neither policy gives one, so each uses its
\* USING expression
OutingUpdateCheckOwnerOnly(uid, new) == uid = new.user_id \/ IsStaff(uid)
OutingUpdateCheck(uid, new) == OutingUpdateUsing(uid, new)

\* the update with approved_by left out of the change
OutingUpdateStatusOnly(rows, uid, id, status, approver) ==
  LET hit == {r \in rows : r.id = id /\ OutingSelectUsing(uid, r)
                           /\ OutingUpdateUsing(uid, r)}
      upd(r) == [r EXCEPT !.status = status]
  IN IF \E r \in hit : ~OutingUpdateCheck(uid, upd(r))
       THEN [rows |-> rows, error |-> "42501"]
       ELSE [rows |-> {IF r \in hit THEN upd(r) ELSE r : r \in rows},
             error |-> ""]

\* .update(change).eq('id', id) run as uid: the rows after it and its error
\* code ("" = no error, also when no row was selected)
OutingUpdate(rows, uid, id, status, approver) ==
  LET hit == {r \in rows : r.id = id /\ OutingSelectUsing(uid, r)
                           /\ OutingUpdateUsing(uid, r)}
      upd(r) == [r EXCEPT !.status = status,
                          !.approved_by = IF approver = NoUser THEN @
                                          ELSE approver]
  IN IF \E r \in hit : ~OutingUpdateCheck(uid, upd(r))
       THEN [rows |-> rows, error |-> "42501"]
       ELSE [rows |-> {IF r \in hit THEN upd(r) ELSE r : r \in rows},
             error |-> ""]

\* ------------------------------------------------------------ OutingPage

\* isTeacher
IsTeacher(u) == role(u) = "teacher" \/ role(u) = "admin"

\* fetchApplications with the completed tab's query of a teacher for everyone,
\* run without the SELECT policy
ListApplicationsAllCompleted(rows, u, tab) ==
  {r \in rows :
     /\ TRUE
     /\ CASE tab = "my" -> r.user_id = u /\ r.status \in {"pending", "approved"}
          [] tab = "completed" ->
               r.status \in {"completed", "rejected", "cancelled"}
          [] tab = "public" ->
               /\ r.share_type \in {"public", "link"}
               /\ r.status \in {"pending", "approved"}}

\* fetchApplications with 'cancelled' missing from the completed tab's statuses
ListApplicationsNoCancelled(rows, u, tab) ==
  {r \in rows :
     /\ OutingSelectUsing(u, r)
     /\ CASE tab = "my" -> r.user_id = u /\ r.status \in {"pending", "approved"}
          [] tab = "completed" ->
               /\ r.status \in {"completed", "rejected"}
               /\ (IsTeacher(u) \/ r.user_id = u)
          [] tab = "public" ->
               /\ r.share_type \in {"public", "link"}
               /\ r.status \in {"pending", "approved"}}

\* fetchApplications: the rows the query of a tab returns to the viewer
ListApplications(rows, u, tab) ==
  {r \in rows :
     /\ OutingSelectUsing(u, r)
     /\ CASE tab = "my" -> r.user_id = u /\ r.status \in {"pending", "approved"}
          [] tab = "completed" ->
               /\ r.status \in {"completed", "rejected", "cancelled"}
               /\ (IsTeacher(u) \/ r.user_id = u)
          [] tab = "public" ->
               /\ r.share_type \in {"public", "link"}
               /\ r.status \in {"pending", "approved"}}

TabType == {"my", "completed", "public"}
NoOutingAlert == [text |-> "", status |-> ""]

PassInit ==
  /\ outing_applications = {}
  /\ outingPage = [u \in Users |-> [selectedApp |-> NoApp, status |-> ""]]
  /\ outingAlert = NoOutingAlert

\* the times of day the form's time inputs are set to; the first two are the
\* initial formStartTime '19:10' and formEndTime '23:30'
DefaultStartTime == 1910
DefaultEndTime == 2330
FormTimes == {DefaultStartTime, DefaultEndTime}

\* handleSubmit from the form (opening the form clears selectedApp), not
\* long-term: start_time and end_time are formDate with the two time inputs
OutingSubmitAt(u, location, share, formStartTime, formEndTime) ==
  LET new == [id |-> Cardinality(outing_applications) + 1, user_id |-> u,
              location |-> location, share_type |-> share,
              start_time |-> formStartTime, end_time |-> formEndTime,
              status |-> "pending", approved_by |-> NoUser]
  IN /\ Cardinality(outing_applications) < MaxPasses
     /\ IF location = ""
          THEN /\ outingAlert' = [text |-> "location", status |-> ""]
               /\ UNCHANGED outing_applications
          ELSE /\ outing_applications' = outing_applications \cup {new}
               /\ outingAlert' = NoOutingAlert
     /\ outingPage' = [outingPage EXCEPT ![u] =
                          [selectedApp |-> NoApp, status |-> ""]]
     /\ UNCHANGED <<seatVars, ledgerVars,
                 frontVars>>

\* handleSubmit with the time inputs left as they are initially
OutingSubmit(u, location, share) ==
  OutingSubmitAt(u, location, share, DefaultStartTime, DefaultEndTime)

\* a tab's list is fetched and one of its rows is opened: setSelectedApp(app)
OutingSelect(u, tab, id) ==
  /\ \E r \in ListApplications(outing_applications, u, tab) : r.id = id
  /\ outingPage' = [outingPage EXCEPT ![u] =
        [selectedApp |-> id, status |-> OutingRow(id).status]]
  /\ outingPage' # outingPage
  /\ UNCHANGED <<outing_applications, outingAlert, seatVars, ledgerVars,
                 frontVars>>

\* the cancel button of the detail panel and handleCancel(selectedApp.id)
OutingCancel(u) ==
  LET app == outingPage[u]
      res == OutingUpdate(outing_applications, u, app.selectedApp,
                          "cancelled", NoUser)
  IN /\ app.selectedApp # NoApp
     /\ OutingRow(app.selectedApp).user_id = u
     /\ app.status = "pending"
     /\ outing_applications' = res.rows
     /\ outingPage' = [outingPage EXCEPT ![u] =
          IF res.error = "" THEN [selectedApp |-> NoApp, status |-> ""] ELSE @]
     /\ outingAlert' = IF res.error = "" THEN NoOutingAlert
                       ELSE [text |-> "error", status |-> "cancelled"]
     /\ UNCHANGED <<seatVars, ledgerVars,
                 frontVars>>

\* the approve / reject buttons and handleApprove(selectedApp.id, approve)
OutingApprove(u, approve) ==
  LET app == outingPage[u]
      status == IF approve THEN "approved" ELSE "rejected"
      res == OutingUpdate(outing_applications, u, app.selectedApp, status, u)
  IN /\ app.selectedApp # NoApp
     /\ IsTeacher(u)
     /\ app.status = "pending"
     /\ outing_applications' = res.rows
     /\ outingPage' = [outingPage EXCEPT ![u] =
          IF res.error = "" THEN [selectedApp |-> NoApp, status |-> ""] ELSE @]
     /\ outingAlert' = IF res.error = "" THEN NoOutingAlert
                       ELSE [text |-> "error", status |-> status]
     /\ UNCHANGED <<seatVars, ledgerVars,
                 frontVars>>

\* approved_by of an update: handleApprove sends the caller with a decision,
\* handleCancel sends none
Approver(u, status) ==
  IF status \in {"approved", "rejected"} THEN u ELSE NoUser

\* a signed-in user sends .update({status, approved_by}).eq('id', id) through
\* the storage client; the policies decide.  The storage calls of handleCancel
\* and handleApprove are the cases (cancelled, none) and (approved or
\* rejected, caller).
OutingDirectUpdate(u, id, status, approver) ==
  LET res == OutingUpdate(outing_applications, u, id, status, approver)
  IN /\ \E r \in outing_applications : r.id = id
     /\ outing_applications' = res.rows
     /\ outingAlert' = IF res.error = "" THEN NoOutingAlert
                       ELSE [text |-> "update " \o res.error, status |-> status]
     /\ UNCHANGED <<outingPage, seatVars, ledgerVars,
                 frontVars>>

\* INSERT policies of outing_applications, WITH CHECK on the new row:
\* "Users can create own outing applications" OR "Teachers can manage all"
OutingInsertCheck(uid, new) == uid = new.user_id \/ IsStaff(uid)

\* a signed-in user sends .insert({user_id, status}) through the storage
\* client; status is a column the caller may supply (its default is pending).
\* handleSubmit's insert is the case (caller, pending).
OutingDirectInsert(u, owner, status) ==
  LET new == [id |-> Cardinality(outing_applications) + 1, user_id |-> owner,
              location |-> "room", share_type |-> "private",
              start_time |-> DefaultStartTime, end_time |-> DefaultEndTime,
              status |-> status, approved_by |-> NoUser]
  IN /\ Cardinality(outing_applications) < MaxPasses
     /\ IF OutingInsertCheck(u, new)
          THEN /\ outing_applications' = outing_applications \cup {new}
               /\ outingAlert' = NoOutingAlert
          ELSE /\ outingAlert' = [text |-> "insert 42501", status |-> status]
               /\ UNCHANGED outing_applications
     /\ UNCHANGED <<outingPage, seatVars, ledgerVars,
                 frontVars>>

\* --------------------------- storage: penalty ledger and profiles.total_penalty

NoRecord == 0
\* points of the sample reasons: a merit (-1) and a penalty (+5)
Points == {-1, 5}

\* penalty_records.points of the record with this id
PointsOf(records, rid) == (CHOOSE r \in records : r.id = rid).points

\* SUM(pr.points) over target rows joined with their records
RECURSIVE SumPoints(_, _)
SumPoints(records, rows) ==
  IF rows = {} THEN 0
  ELSE LET x == CHOOSE x \in rows : TRUE
       IN PointsOf(records, x.record_id) + SumPoints(records, rows \ {x})

\* update_user_total_penalty: SELECT COALESCE(SUM(pr.points), 0) INTO new_total
\* ... WHERE prt.user_id = target_user_id, over the target rows it can see
NewTotal(records, rows, target_user_id) ==
  SumPoints(records, {x \in rows : x.user_id = target_user_id})

\* "Users can update own profile": the only UPDATE policy of profiles
ProfilesUpdateUsing(uid, id) == uid = id

\* update_user_total_penalty: UPDATE profiles SET total_penalty = new_total
\* WHERE id = target_user_id, for every target of the statement.  The function
\* is not SECURITY DEFINER, so the UPDATE runs as the caller uid and touches
\* only the rows the caller's policy selects.
UpdateTotalPenalty(totals, uid, targets, new_total) ==
  [id \in Users |->
     IF id \in targets /\ ProfilesUpdateUsing(uid, id)
       THEN new_total[id] ELSE totals[id]]

\* "Teachers can manage penalty targets" (ALL) and "Teachers can create
\* penalty records" (INSERT)
PenaltyWriteCheck(uid) == IsStaff(uid)

\* the rows an insert of these targets for this record adds
TargetRows(rid, targets) == {[record_id |-> rid, user_id |-> t] : t \in targets}

\* --------------------------------------------------------- GivePenaltyPage

GiveIdle == [phase |-> "idle", record |-> NoRecord, targets |-> {},
             new_total |-> <<>>, rivals |-> {}]

\* the staff whose insert of target rows has run its triggers and is not
\* committed yet
Uncommitted == {v \in Staff : givePage[v].phase = "commit"}

LedgerInit ==
  /\ penalty_records = {}
  /\ penalty_record_targets = {}
  /\ notifications = {}
  /\ total_penalty = [u \in Users |-> 0]
  /\ givePage = [u \in Staff |-> GiveIdle]
  /\ giveAlert = ""

\* selectedReason of the give page: null, or the chosen reason with its points
NoReason == <<>>

Reasons == {NoReason} \cup {<<p>> : p \in Points}

\* The first line of handleSubmit with only the test of the reason kept
SubmitReturnsNoReasonOnly(selectedReason, selectedStudents) ==
  selectedReason = NoReason

\* The first line of handleSubmit: it returns when no reason is selected or no
\* student is selected (the user is signed in; submitting is the page's phase)
SubmitReturns(selectedReason, selectedStudents) ==
  selectedReason = NoReason \/ selectedStudents = {}

\* handleSubmit up to the answer of the insert into penalty_records; fails is
\* the storage call ending in an error.  A call that returns at its first
\* line shows no alert; giveAlert records it as "returned".
GiveSubmit(u, selectedReason, selectedStudents, fails) ==
  /\ IsTeacher(u)
  /\ givePage[u].phase = "idle"
  /\ IF SubmitReturns(selectedReason, selectedStudents)
       THEN /\ giveAlert' = "returned"
            /\ UNCHANGED <<penalty_records, givePage>>
       ELSE LET record == [id |-> Cardinality(penalty_records) + 1,
                           issued_by |-> u, points |-> selectedReason[1]]
            IN /\ Cardinality(penalty_records) < MaxRecords
               /\ IF fails \/ ~PenaltyWriteCheck(u)
                    THEN /\ giveAlert' = "error"
                         /\ UNCHANGED <<penalty_records, givePage>>
                    ELSE /\ penalty_records' = penalty_records \cup {record}
                         /\ givePage' = [givePage EXCEPT ![u] =
                              [GiveIdle EXCEPT !.phase = "targets",
                                               !.record = record.id,
                                               !.targets = selectedStudents]]
                         /\ UNCHANGED giveAlert
  /\ UNCHANGED <<penalty_record_targets, notifications, total_penalty,
                 seatVars, passVars,
                 frontVars>>

\* handleSubmit: the insert into penalty_record_targets runs in its
\* transaction.  On an error (fails, or UNIQUE(record_id, user_id)) the
\* handler alerts and returns.  Otherwise the AFTER INSERT triggers of its rows
\* have read the sums, over the committed rows and its own, and the
\* transaction has yet to commit.
GiveTargets(u, fails) ==
  LET pg == givePage[u]
      own == TargetRows(pg.record, pg.targets)
      met == {v \in Uncommitted : givePage[v].targets \cap pg.targets # {}}
  IN /\ pg.phase = "targets"
     /\ IF fails \/ ~PenaltyWriteCheck(u) \/ own \cap penalty_record_targets # {}
          THEN /\ giveAlert' = "error"
               /\ givePage' = [givePage EXCEPT ![u] = GiveIdle]
          ELSE /\ givePage' = [v \in Staff |->
                    IF v = u
                      THEN [pg EXCEPT
                              !.phase = "commit",
                              !.new_total = [t \in pg.targets |->
                                 NewTotal(penalty_records,
                                          penalty_record_targets \cup own, t)],
                              !.rivals = UNION {givePage[w].targets : w \in met}
                                           \cap pg.targets]
                    ELSE IF v \in met
                      THEN [givePage[v] EXCEPT !.rivals =
                              @ \cup (givePage[v].targets \cap pg.targets)]
                    ELSE givePage[v]]
               /\ UNCHANGED giveAlert
     /\ UNCHANGED <<penalty_records, penalty_record_targets, notifications,
                    total_penalty, seatVars, passVars,
                 frontVars>>

\* the transaction of the target rows commits: its rows and the UPDATEs of
\* profiles its triggers made become visible
GiveTargetsCommit(u) ==
  LET pg == givePage[u]
  IN /\ pg.phase = "commit"
     /\ penalty_record_targets' =
          penalty_record_targets \cup TargetRows(pg.record, pg.targets)
     /\ total_penalty' =
          UpdateTotalPenalty(total_penalty, u, pg.targets, pg.new_total)
     /\ givePage' = [givePage EXCEPT ![u].phase = "notify"]
     /\ UNCHANGED <<penalty_records, notifications, giveAlert,
                    seatVars, passVars,
                 frontVars>>

\* handleSubmit: the insert into notifications, whose result is not looked
\* at, then the success alert
GiveNotify(u, fails) ==
  LET pg == givePage[u]
  IN /\ pg.phase = "notify"
     /\ notifications' =
          IF fails THEN notifications
          ELSE notifications \cup
                 {[user_id |-> t, related_id |-> pg.record] : t \in pg.targets}
     /\ giveAlert' = "success"
     /\ givePage' = [givePage EXCEPT ![u] = GiveIdle]
     /\ UNCHANGED <<penalty_records, penalty_record_targets, total_penalty,
                    seatVars, passVars,
                 frontVars>>

\* a staff member inserts one target row through the storage client, in one
\* transaction with its trigger
TargetInsert(u, rid, t) ==
  LET rows == penalty_record_targets \cup TargetRows(rid, {t})
  IN /\ PenaltyWriteCheck(u)
     /\ \E r \in penalty_records : r.id = rid
     /\ TargetRows(rid, {t}) \cap penalty_record_targets = {}
     /\ \A v \in Uncommitted :
           ~(givePage[v].record = rid /\ t \in givePage[v].targets)
     /\ penalty_record_targets' = rows
     /\ total_penalty' =
          UpdateTotalPenalty(total_penalty, u, {t},
                             [x \in {t} |-> NewTotal(penalty_records, rows, x)])
     /\ UNCHANGED <<penalty_records, notifications, givePage, giveAlert,
                    seatVars, passVars,
                 frontVars>>

\* a staff member deletes one target row through the storage client, in one
\* transaction with its trigger
TargetDelete(u, rid, t) ==
  LET rows == penalty_record_targets \ TargetRows(rid, {t})
  IN /\ PenaltyWriteCheck(u)
     /\ TargetRows(rid, {t}) \subseteq penalty_record_targets
     /\ penalty_record_targets' = rows
     /\ total_penalty' =
          UpdateTotalPenalty(total_penalty, u, {t},
                             [x \in {t} |-> NewTotal(penalty_records, rows, x)])
     /\ UNCHANGED <<penalty_records, notifications, givePage, giveAlert,
                    seatVars, passVars,
                 frontVars>>

\* "Teachers can update penalty records": the UPDATE policy of penalty_records
PenaltyRecordUpdateUsing(uid) == IsStaff(uid)

\* a signed-in user sends .update({points}).eq('id', rid) on penalty_records
\* through the storage client; no trigger recomputes total_penalty for it
RecordUpdate(u, rid, points) ==
  /\ PenaltyRecordUpdateUsing(u)
  /\ \E r \in penalty_records : r.id = rid /\ r.points # points
  /\ penalty_records' =
       {IF r.id = rid THEN [r EXCEPT !.points = points] ELSE r :
          r \in penalty_records}
  /\ UNCHANGED <<penalty_record_targets, notifications, total_penalty,
                 givePage, giveAlert, seatVars, passVars,
                 frontVars>>

\* ---------------------------------------------------------- AuthProvider

\* user and profile are null (NoUser) or the signed-in user and the profile
\* row of a user; session is the auth client's session; fetches are the
\* users whose fetchProfile call is awaiting its answer
AuthInit ==
  authProvider = [user |-> NoUser, profile |-> NoUser, session |-> NoUser,
                  fetches |-> {}, initialized |-> FALSE, signingOut |-> FALSE]

AuthFrame ==
  UNCHANGED <<seatVars, passVars, ledgerVars, giveSelect, notificationBell>>

\* initAuth after getSession: with a session, setUser and fetchProfile start
InitAuth ==
  /\ ~authProvider.initialized
  /\ authProvider' =
       IF authProvider.session = NoUser
         THEN [authProvider EXCEPT !.initialized = TRUE]
         ELSE [authProvider EXCEPT !.initialized = TRUE,
                                   !.user = authProvider.session,
                                   !.fetches = @ \cup {authProvider.session}]
  /\ AuthFrame

\* onAuthStateChange SIGNED_IN: a sign-in of u reaches the provider
SignedIn(u) ==
  /\ authProvider.session = NoUser
  /\ authProvider' = [authProvider EXCEPT !.session = u, !.user = u,
                                          !.fetches = @ \cup {u}]
  /\ AuthFrame

\* onAuthStateChange TOKEN_REFRESHED
TokenRefreshed ==
  /\ authProvider.session # NoUser
  /\ authProvider' = [authProvider EXCEPT !.user = authProvider.session,
                          !.fetches = @ \cup {authProvider.session}]
  /\ authProvider' # authProvider
  /\ AuthFrame

\* onAuthStateChange SIGNED_OUT (the session ended in another tab or expired)
SignedOut ==
  /\ authProvider.session # NoUser
  /\ authProvider' = [authProvider EXCEPT !.session = NoUser, !.user = NoUser,
                                          !.profile = NoUser]
  /\ AuthFrame

\* signOut up to the answer of supabase.auth.signOut(), which ends the
\* session and delivers SIGNED_OUT to the listener
SignOutStart ==
  /\ authProvider.session # NoUser
  /\ ~authProvider.signingOut
  /\ authProvider' = [authProvider EXCEPT !.session = NoUser, !.user = NoUser,
                          !.profile = NoUser, !.signingOut = TRUE]
  /\ AuthFrame

\* signOut after its await: setUser(null), setProfile(null)
SignOutDone ==
  /\ authProvider.signingOut
  /\ authProvider' = [authProvider EXCEPT !.user = NoUser, !.profile = NoUser,
                                          !.signingOut = FALSE]
  /\ AuthFrame

\* a fetchProfile call gets its answer: setProfile(data) when a row came
FetchProfileDone(userId, found) ==
  /\ userId \in authProvider.fetches
  /\ authProvider' = [authProvider EXCEPT !.fetches = @ \ {userId},
                          !.profile = IF found THEN userId ELSE @]
  /\ AuthFrame

\* ------------------------------------------------------ NotificationBell

\* rows holds the signed-in user's rows of table notifications (id, is_read);
\* notifications and unreadCount are the component's state; undelivered are
\* the inserted rows whose realtime INSERT callback has not run; fetches are
\* the answers of fetchNotifications calls under way; reads are the ids of the
\* markAsRead calls whose update is done and whose setState calls are to come;
\* loading is markAllAsRead being at its await
BellInit ==
  notificationBell = [rows |-> {}, notifications |-> <<>>, unreadCount |-> 0,
                      undelivered |-> {}, fetches |-> {}, reads |-> <<>>,
                      loading |-> FALSE]

BellFrame ==
  UNCHANGED <<seatVars, passVars, ledgerVars, giveSelect, authProvider>>

\* data.filter((n) => !n.is_read).length
Unread(list) == Cardinality({i \in 1..Len(list) : ~list[i].is_read})

\* .order('created_at', { ascending: false }): newest (highest id) first
RECURSIVE Newest(_)
Newest(set) ==
  IF set = {} THEN <<>>
  ELSE LET top == CHOOSE r \in set : \A q \in set : q.id <= r.id
       IN <<top>> \o Newest(set \ {top})

\* .update({is_read: true}) on the rows of ids
ReadRows(set, ids) ==
  {IF r.id \in ids THEN [r EXCEPT !.is_read = TRUE] ELSE r : r \in set}

\* a notification for the user is inserted (by an issuance, for instance)
BellInsert ==
  LET new == [id |-> Cardinality(notificationBell.rows) + 1, is_read |-> FALSE]
  IN /\ Cardinality(notificationBell.rows) < MaxNotifs
     /\ notificationBell' = [notificationBell EXCEPT
            !.rows = @ \cup {new}, !.undelivered = @ \cup {new.id}]
     /\ BellFrame

\* the realtime INSERT callback
BellRealtime(id) ==
  /\ id \in notificationBell.undelivered
  /\ notificationBell' = [notificationBell EXCEPT
         !.undelivered = @ \ {id},
         !.notifications = <<[id |-> id, is_read |-> FALSE]>> \o @,
         !.unreadCount = @ + 1]
  /\ BellFrame

\* fetchNotifications up to the answer of its select
FetchNotificationsStart ==
  /\ Newest(notificationBell.rows) \notin notificationBell.fetches
  /\ notificationBell' = [notificationBell EXCEPT
         !.fetches = @ \cup {Newest(notificationBell.rows)}]
  /\ BellFrame

\* fetchNotifications after its await
FetchNotificationsDone ==
  /\ \E data \in notificationBell.fetches :
        notificationBell' = [notificationBell EXCEPT
           !.fetches = @ \ {data}, !.notifications = data,
           !.unreadCount = Unread(data)]
  /\ BellFrame

\* a click on a notification rendered unread: markAsRead up to the answer of
\* its update
MarkAsReadStart(notificationId) ==
  /\ \E i \in 1..Len(notificationBell.notifications) :
        /\ notificationBell.notifications[i].id = notificationId
        /\ ~notificationBell.notifications[i].is_read
  /\ Len(notificationBell.reads) < MaxReads
  /\ notificationBell' = [notificationBell EXCEPT
         !.rows = ReadRows(@, {notificationId}),
         !.reads = Append(@, notificationId)]
  /\ BellFrame

\* markAsRead after its await
MarkAsReadDone(k) ==
  LET notificationId == notificationBell.reads[k]
  IN /\ k <= Len(notificationBell.reads)
     /\ notificationBell' = [notificationBell EXCEPT
            !.reads = SubSeq(@, 1, k - 1) \o SubSeq(@, k + 1, Len(@)),
            !.notifications =
               [i \in 1..Len(@) |->
                  IF @[i].id = notificationId
                    THEN [@[i] EXCEPT !.is_read = TRUE] ELSE @[i]],
            !.unreadCount = IF @ - 1 > 0 THEN @ - 1 ELSE 0]
     /\ BellFrame

\* markAllAsRead up to the answer of its update
MarkAllAsReadStart ==
  /\ ~notificationBell.loading
  /\ notificationBell' = [notificationBell EXCEPT
         !.loading = TRUE,
         !.rows = ReadRows(@, {r.id : r \in notificationBell.rows})]
  /\ BellFrame

\* markAllAsRead after its await
MarkAllAsReadDone ==
  /\ notificationBell.loading
  /\ notificationBell' = [notificationBell EXCEPT
         !.loading = FALSE,
         !.notifications = [i \in 1..Len(@) |-> [@[i] EXCEPT !.is_read = TRUE]],
         !.unreadCount = 0]
  /\ BellFrame

\* ------------------------------------------- GivePenaltyPage: student picker

\* the students state: the profiles with role student, by student_number
students == [i \in 1..NumFetched |-> <<"student", i>>]

Range(seq) == {seq[i] : i \in 1..Len(seq)}

\* prev.filter((s) => !S.has(s.id))
Without(seq, S) == SelectSeq(seq, LAMBDA x : x \notin S)

\* the lists toggleAllStudents is called with: the students the filters keep
FilteredLists == {Without(students, S) : S \in SUBSET Range(students)}

\* the updater of toggleStudent adding the student whether selected or not
ToggleStudentAlwaysAdds(prev, student) == Append(prev, student)

\* the updater of toggleStudent
ToggleStudentUpdate(prev, student) ==
  IF student \in Range(prev) THEN Without(prev, {student})
  ELSE Append(prev, student)

\* the updater of toggleAllStudents when not all of the list is selected:
\* push each student of the list that newSelection lacks
RECURSIVE PushMissing(_, _)
PushMissing(newSelection, studentsList) ==
  IF studentsList = <<>> THEN newSelection
  ELSE PushMissing(IF Head(studentsList) \in Range(newSelection)
                     THEN newSelection
                     ELSE Append(newSelection, Head(studentsList)),
                   Tail(studentsList))

\* toggleAllStudents: allSelected is read from the rendered selectedStudents
ToggleAllUpdate(selected, studentsList) ==
  IF \A s \in Range(studentsList) : s \in Range(selected)
    THEN Without(selected, Range(studentsList))
    ELSE PushMissing(selected, studentsList)

\* the close button on the direct tab: each directInputStudents entry that the
\* rendered selectedStudents lacks is appended by its own updater
RECURSIVE ApplyDirect(_, _, _)
ApplyDirect(prev, rendered, direct) ==
  IF direct = <<>> THEN prev
  ELSE ApplyDirect(IF Head(direct) \in Range(rendered) THEN prev
                   ELSE Append(prev, Head(direct)),
                   rendered, Tail(direct))

SelectInit ==
  giveSelect = [selectedStudents |-> <<>>, directInputStudents |-> <<>>,
                studentModalTab |-> "list"]

SelectFrame ==
  UNCHANGED <<seatVars, passVars, ledgerVars, authProvider, notificationBell>>

\* toggleStudent(student)
ToggleStudent(student) ==
  /\ giveSelect' = [giveSelect EXCEPT !.selectedStudents =
                       ToggleStudentUpdate(@, student)]
  /\ SelectFrame

\* toggleAllStudents(studentsList)
ToggleAllStudents(studentsList) ==
  /\ giveSelect' = [giveSelect EXCEPT !.selectedStudents =
                       ToggleAllUpdate(@, studentsList)]
  /\ giveSelect' # giveSelect
  /\ SelectFrame

\* setStudentModalTab(tab)
SetStudentModalTab(tab) ==
  /\ giveSelect.studentModalTab # tab
  /\ giveSelect' = [giveSelect EXCEPT !.studentModalTab = tab]
  /\ SelectFrame

\* handleDirectInput with a text that finds the student
HandleDirectInput(found) ==
  /\ giveSelect.studentModalTab = "direct"
  /\ found \notin Range(giveSelect.directInputStudents)
  /\ giveSelect' = [giveSelect EXCEPT !.directInputStudents = Append(@, found)]
  /\ SelectFrame

\* the remove button of a direct-input entry
RemoveDirectInput(student) ==
  /\ giveSelect.studentModalTab = "direct"
  /\ student \in Range(giveSelect.directInputStudents)
  /\ giveSelect' = [giveSelect EXCEPT !.directInputStudents =
                       Without(@, {student})]
  /\ SelectFrame

\* the close button of the student modal
CloseStudentModal ==
  /\ giveSelect.studentModalTab = "direct"
  /\ giveSelect' = [giveSelect EXCEPT !.selectedStudents =
        ApplyDirect(@, giveSelect.selectedStudents,
                    giveSelect.directInputStudents)]
  /\ giveSelect' # giveSelect
  /\ SelectFrame

\* resetStudentSelection
ResetStudentSelection ==
  /\ giveSelect' = [giveSelect EXCEPT !.selectedStudents = <<>>,
                                      !.directInputStudents = <<>>]
  /\ giveSelect' # giveSelect
  /\ SelectFrame

\* handleSubmit: the target rows it sends for a record
TargetsOf(rid) ==
  [i \in 1..Len(giveSelect.selectedStudents) |->
     [record_id |-> rid, user_id |-> giveSelect.selectedStudents[i]]]


FrontInit == SelectInit /\ AuthInit /\ BellInit

vars == <<seatVars, passVars, ledgerVars, frontVars>>

Init == SeatInit /\ PassInit /\ LedgerInit /\ FrontInit

\* the study page with fetches that resolve late
NextSeat ==
  \/ \E u \in StudyUsers : FetchData(u)
  \/ \E u \in StudyUsers, delta \in {-1, 1} : ChangeDate(u, delta)
  \/ \E u \in StudyUsers, s \in Seats : HandleApply(u, s)
  \/ \E u \in StudyUsers : HandleCancel(u)

SpecSeat == Init /\ [][NextSeat]_vars

\* the study page and the status updates a student can send through the
\* storage client
NextSeatDirect ==
  \/ \E u \in StudyUsers : FetchData(u)
  \/ \E u \in StudyUsers, delta \in {-1, 1} : ChangeDate(u, delta)
  \/ \E u \in StudyUsers, s \in Seats : HandleApply(u, s)
  \/ \E u \in StudyUsers : HandleCancel(u)
  \/ \E u \in StudyUsers, s \in Seats, d \in Dates :
        \E status \in {"approved", "cancelled"} :
           StudyDirectUpdate(u, s, d, status)

SpecSeatDirect == Init /\ [][NextSeatDirect]_vars

\* the study page with inserts that are answered late
NextSeatRace ==
  \/ \E u \in StudyUsers, delta \in {-1, 1} : ChangeDateFetched(u, delta)
  \/ \E u \in StudyUsers, s \in Seats : HandleApplyStart(u, s)
  \/ \E u \in StudyUsers : HandleApplyInsert(u)
  \/ \E u \in StudyUsers : HandleCancel(u)

SpecSeatRace == Init /\ [][NextSeatRace]_vars

\* the outing page
NextPass ==
  \/ \E u \in Users, loc \in {"", "room"}, sh \in share_type :
        OutingSubmit(u, loc, sh)
  \/ \E u \in Users, tab \in TabType, id \in 1..MaxPasses :
        OutingSelect(u, tab, id)
  \/ \E u \in Users : OutingCancel(u)
  \/ \E u \in Users, approve \in BOOLEAN : OutingApprove(u, approve)

SpecPass == Init /\ [][NextPass]_vars

\* the calls of the storage client on outing_applications rows: inserts, and
\* updates by id of status (with approved_by, as Approver gives it)
NextPassDirect ==
  \/ \E u \in Users, sh \in share_type : OutingSubmit(u, "room", sh)
  \/ \E u \in Users, id \in 1..MaxPasses, st \in application_status :
        OutingDirectUpdate(u, id, st, Approver(u, st))
  \/ \E u \in Users, owner \in Users, st \in {"pending", "approved"} :
        OutingDirectInsert(u, owner, st)

SpecPassDirect == Init /\ [][NextPassDirect]_vars

\* the request form with its time inputs, and the lists
NextPassForm ==
  \/ \E u \in Users, loc \in {"", "room"}, sh \in share_type :
        \E formStartTime \in FormTimes, formEndTime \in FormTimes :
           OutingSubmitAt(u, loc, sh, formStartTime, formEndTime)
  \/ \E u \in Users, tab \in TabType, id \in 1..MaxPasses :
        OutingSelect(u, tab, id)

SpecPassForm == Init /\ [][NextPassForm]_vars

\* a stored row of outing_applications: requests are inserted pending and the
\* staff's updates give them any status of the enum
StoredRow(id, owner, share, status) ==
  [id |-> id, user_id |-> owner, location |-> "room", share_type |-> share,
   start_time |-> DefaultStartTime, end_time |-> DefaultEndTime,
   status |-> status,
   approved_by |-> IF status \in {"pending", "cancelled"} THEN NoUser
                   ELSE <<"teacher", 1>>]

\* the viewers whose page is followed in the lists
ListViewers == {<<"student", 1>>, <<"teacher", 1>>}

\* storage holds up to MaxListed requests of the students, of any sharing and
\* status
ListInit ==
  /\ SeatInit /\ LedgerInit /\ FrontInit
  /\ \E n \in 0..MaxListed :
        \E f \in [1..n -> Students \X share_type \X application_status] :
           outing_applications =
             {StoredRow(i, f[i][1], f[i][2], f[i][3]) : i \in 1..n}
  /\ outingPage = [u \in Users |-> [selectedApp |-> NoApp, status |-> ""]]
  /\ outingAlert = NoOutingAlert

\* the lists of the outing page over stored requests
NextPassList ==
  \E u \in ListViewers, tab \in TabType, id \in 1..MaxListed :
     OutingSelect(u, tab, id)

SpecPassList == ListInit /\ [][NextPassList]_vars

\* the handlers of the study page and of the outing page together: a student's
\* bookings and cancels for the day the page opens on, and the requests,
\* cancels and decisions of a student and a teacher
PageStudent == <<"student", 1>>
PageUsers == {PageStudent, <<"teacher", 1>>}

NextPages ==
  \/ \E s \in Seats : HandleApply(PageStudent, s)
  \/ HandleCancel(PageStudent)
  \/ \E u \in PageUsers, sh \in share_type : OutingSubmit(u, "room", sh)
  \/ \E u \in PageUsers, tab \in TabType, id \in 1..MaxPasses :
        OutingSelect(u, tab, id)
  \/ \E u \in PageUsers : OutingCancel(u)
  \/ \E u \in PageUsers, approve \in BOOLEAN : OutingApprove(u, approve)

SpecPages == Init /\ [][NextPages]_vars

\* the student picker of the give-penalty page
NextSelect ==
  \/ \E i \in 1..NumFetched : ToggleStudent(students[i])
  \/ \E studentsList \in FilteredLists : ToggleAllStudents(studentsList)
  \/ \E tab \in {"list", "direct"} : SetStudentModalTab(tab)
  \/ \E i \in 1..NumFetched : HandleDirectInput(students[i])
  \/ \E i \in 1..NumFetched : RemoveDirectInput(students[i])
  \/ CloseStudentModal
  \/ ResetStudentSelection

SpecSelect == Init /\ [][NextSelect]_vars

\* the auth provider with its events and its profile fetches
NextAuth ==
  \/ InitAuth
  \/ \E u \in Users : SignedIn(u)
  \/ TokenRefreshed
  \/ SignedOut
  \/ SignOutStart
  \/ SignOutDone
  \/ \E userId \in Users, found \in BOOLEAN : FetchProfileDone(userId, found)

SpecAuth == Init /\ [][NextAuth]_vars

\* the notification bell of a signed-in user
NextBell ==
  \/ BellInsert
  \/ \E id \in 1..MaxNotifs : BellRealtime(id)
  \/ FetchNotificationsStart
  \/ FetchNotificationsDone
  \/ \E notificationId \in 1..MaxNotifs : MarkAsReadStart(notificationId)
  \/ \E k \in 1..MaxReads : MarkAsReadDone(k)
  \/ MarkAllAsReadStart
  \/ MarkAllAsReadDone

SpecBell == Init /\ [][NextBell]_vars

\* the give-penalty page of every staff member
NextLedger ==
  \/ \E u \in Staff, selectedReason \in Reasons, fails \in BOOLEAN :
        \E selectedStudents \in SUBSET Students :
           GiveSubmit(u, selectedReason, selectedStudents, fails)
  \/ \E u \in Staff, fails \in BOOLEAN : GiveTargets(u, fails)
  \/ \E u \in Staff : GiveTargetsCommit(u)
  \/ \E u \in Staff, fails \in BOOLEAN : GiveNotify(u, fails)

SpecLedger == Init /\ [][NextLedger]_vars

\* the give-penalty page and the staff's own inserts and deletes of target
\* rows, for the caller's own profile (the one row the profiles policy lets
\* the trigger update) and for a student's
NextLedgerDirect ==
  \/ \E u \in Staff, selectedReason \in Reasons, fails \in BOOLEAN :
        \E selectedStudents \in SUBSET Students :
           GiveSubmit(u, selectedReason, selectedStudents, fails)
  \/ \E u \in Staff, fails \in BOOLEAN : GiveTargets(u, fails)
  \/ \E u \in Staff : GiveTargetsCommit(u)
  \/ \E u \in Staff, fails \in BOOLEAN : GiveNotify(u, fails)
  \/ \E u \in Staff, rid \in 1..MaxRecords :
        \E t \in {u, <<"student", 1>>} : TargetInsert(u, rid, t)
  \/ \E u \in Staff, rid \in 1..MaxRecords :
        \E t \in {u, <<"student", 1>>} : TargetDelete(u, rid, t)

SpecLedgerDirect == Init /\ [][NextLedgerDirect]_vars

\* the give-penalty page and the updates of a record's points the storage
\* client can send
NextLedgerUpdate ==
  \/ \E u \in Staff, selectedReason \in Reasons, fails \in BOOLEAN :
        \E selectedStudents \in SUBSET Students :
           GiveSubmit(u, selectedReason, selectedStudents, fails)
  \/ \E u \in Staff, fails \in BOOLEAN : GiveTargets(u, fails)
  \/ \E u \in Staff : GiveTargetsCommit(u)
  \/ \E u \in Staff, fails \in BOOLEAN : GiveNotify(u, fails)
  \/ \E u \in Users, rid \in 1..MaxRecords, points \in Points :
        RecordUpdate(u, rid, points)

SpecLedgerUpdate == Init /\ [][NextLedgerUpdate]_vars

\* ------------------------------------------------------- seat allocation

\* the rows of a (seat, date) slot that are not cancelled
ActiveOfSeat(s, d) ==
  {r \in study_applications :
     r.seat_id = s /\ r.date = d /\ r.status # "cancelled"}

\* the rows of a user on a date that are not cancelled
ActiveOfUser(u, d) ==
  {r \in study_applications :
     r.user_id = u /\ r.date = d /\ r.status # "cancelled"}

\* C1: for every seat and date at most one seat booking of that seat and
\* date has a status other than cancelled.
SeatUniqueness ==
  \A s \in Seats, d \in Dates : Cardinality(ActiveOfSeat(s, d)) <= 1

\* a seat is held by one user and another user, who has no row on that date,
\* was just refused the date with the duplicate alert
SeatUniquenessWitness ==
  \E r \in study_applications :
    /\ r.status # "cancelled"
    /\ studyAlert.text = "duplicate"
    /\ studyAlert.user_id \in Users \ {r.user_id}
    /\ studyPage[studyAlert.user_id].selectedDate = r.date
    /\ ~\E q \in study_applications :
          q.user_id = studyAlert.user_id /\ q.date = r.date

\* C2: for every user and date at most one seat booking of that user on that
\* date has a status other than cancelled.
UserPerDayUniqueness ==
  \A u \in Users, d \in Dates : Cardinality(ActiveOfUser(u, d)) <= 1

\* a user who holds a booking on a date was just refused a second one on it
UserPerDayUniquenessWitness ==
  \E r \in study_applications :
    /\ r.status # "cancelled"
    /\ studyAlert.text = "duplicate"
    /\ studyAlert.user_id = r.user_id
    /\ studyPage[r.user_id].selectedDate = r.date
    /\ studyPage[r.user_id].myApplication = NoSeat

\* C3: when the inserts of two or more students for one (seat, date) without
\* a booking are awaiting their answers at the same time, then once all are
\* answered exactly one of them has created the booking of that seat and date,
\* and a refused insert is reported with the duplicate alert.
RaceExactlyOneSucceeds ==
  /\ \A sd \in raced :
       (\A u \in Users : studyPage[u].request # [seat_id |-> sd[1], date |-> sd[2]])
         => Cardinality({r \in study_applications :
                           r.seat_id = sd[1] /\ r.date = sd[2]}) = 1
  /\ studyAlert.text \in {"", "duplicate"}

\* C4: after a student booked a seat for a date and cancelled, handleApply of
\* another student (with no active booking on that date) for that seat and
\* date creates that student's pending booking.
RebookAfterCancel ==
  [][\A b \in Students, s \in Seats :
       ( /\ HandleApply(b, s)
         /\ ActiveOfSeat(s, studyPage[b].selectedDate) = {}
         /\ ActiveOfUser(b, studyPage[b].selectedDate) = {}
         /\ \E r \in study_applications :
               /\ r.seat_id = s /\ r.date = studyPage[b].selectedDate
               /\ r.status = "cancelled" /\ r.user_id \in Students \ {b} )
       => [user_id |-> b, seat_id |-> s, date |-> studyPage[b].selectedDate,
           status |-> "pending"] \in study_applications']_vars

\* the stored rows that handleCancel of u addresses: those of the seat of
\* myApplication on the selected date
CancelAddressed(u) ==
  {r \in study_applications :
     /\ r.seat_id = studyPage[u].myApplication
     /\ r.date = studyPage[u].selectedDate}

\* C13: handleCancel that addresses a booking of another user is answered
\* with an error alert and leaves the stored rows unchanged.
CancelByNonOwnerFails ==
  [][\A u \in Users :
       ( /\ HandleCancel(u)
         /\ \E r \in CancelAddressed(u) : r.user_id # u )
       => /\ study_applications' = study_applications
          /\ studyAlert' = [user_id |-> u, text |-> "error"]]_vars

\* C14: handleCancel that addresses the caller's own booking whose stored
\* status is already cancelled shows no error alert and leaves every stored
\* row as it was after the first cancel.
IdempotentCancel ==
  [][\A u \in Users :
       ( /\ HandleCancel(u)
         /\ \E r \in CancelAddressed(u) :
               r.user_id = u /\ r.status = "cancelled" )
       => /\ study_applications' = study_applications
          /\ studyAlert' = [user_id |-> u, text |-> ""]]_vars

\* an owner's handleCancel has addressed an already cancelled booking, which
\* is still cancelled
IdempotentCancelWitness ==
  \E sd \in recancelled :
    \E r \in study_applications :
      r.seat_id = sd[1] /\ r.date = sd[2] /\ r.status = "cancelled"

\* C15: handleApply for a date on which the seat or the caller already has a
\* stored row shows the duplicate alert and leaves every stored row unchanged.
FailedApplyFrame ==
  [][\A u \in Users, s \in Seats :
       ( /\ HandleApply(u, s)
         /\ \E r \in study_applications :
               /\ r.date = studyPage[u].selectedDate
               /\ (r.seat_id = s \/ r.user_id = u) )
       => /\ study_applications' = study_applications
          /\ studyAlert' = [user_id |-> u, text |-> "duplicate"]]_vars

\* a user was just shown the duplicate alert on a date that has a booking
\* which is not cancelled
FailedApplyFrameWitness ==
  /\ studyAlert.text = "duplicate"
  /\ \E r \in study_applications :
       /\ r.date = studyPage[studyAlert.user_id].selectedDate
       /\ r.status # "cancelled"

\* ------------------------------------------------- pass request / approval

\* the request with this id has this status after the step
StatusAfter(id, status) ==
  \E r \in outing_applications' : r.id = id /\ r.status = status

\* C8: a request goes from pending to cancelled only by handleCancel of its
\* owner, and a handleCancel by a user who is not the owner, or on a request
\* whose stored status is not pending, leaves the stored rows unchanged.
CancelOnlyByOwnerWhilePending ==
  [][/\ \A r \in outing_applications :
          (r.status = "pending" /\ StatusAfter(r.id, "cancelled"))
            => OutingCancel(r.user_id)
     /\ \A u \in Users :
          ( /\ OutingCancel(u)
            /\ \/ OutingRow(outingPage[u].selectedApp).user_id # u
               \/ OutingRow(outingPage[u].selectedApp).status # "pending" )
          => outing_applications' = outing_applications]_vars

\* C9: handleCancel of a student on the student's own request whose stored
\* status is pending sets that request's status to cancelled.
OwnerCancelsPending ==
  [][\A u \in Students :
       ( /\ OutingCancel(u)
         /\ OutingRow(outingPage[u].selectedApp).user_id = u
         /\ OutingRow(outingPage[u].selectedApp).status = "pending" )
       => StatusAfter(outingPage[u].selectedApp, "cancelled")]_vars

\* a step of a storage call or page handler made by a student
StudentStep ==
  \E u \in Students :
    \/ \E loc \in {"", "room"}, sh \in share_type : OutingSubmit(u, loc, sh)
    \/ \E id \in 1..MaxPasses, st \in application_status :
          OutingDirectUpdate(u, id, st, Approver(u, st))
    \/ \E owner \in Users, st \in {"pending", "approved"} :
          OutingDirectInsert(u, owner, st)
    \/ OutingCancel(u)
    \/ \E approve \in BOOLEAN : OutingApprove(u, approve)

DecideNotPendingFails ==
  [][\A u \in Users, approve \in BOOLEAN :
       ( /\ OutingApprove(u, approve)
         /\ OutingRow(outingPage[u].selectedApp).status # "pending" )
       => /\ outing_applications' = outing_applications
          /\ outingAlert'.text = "error"]_vars

TerminalStatus == {"rejected", "cancelled", "completed"}

\* C12: a request whose stored status is rejected, cancelled or completed
\* keeps that status in every later step.
TerminalAbsorbing ==
  [][\A r \in outing_applications :
       r.status \in TerminalStatus => StatusAfter(r.id, r.status)]_vars

\* C16: every stored request has a non-empty location and a start_time
\* strictly before its end_time.
StoredRequestsValid ==
  \A r \in outing_applications :
    r.location # "" /\ r.start_time < r.end_time

\* ------------------------------------------------------------ point ledger

\* C5: after every committed insert or delete of a target row, the stored
\* total_penalty of every user equals the sum of the points of the records
\* the user is a target of.
TotalMatchesLedger ==
  [][penalty_record_targets' # penalty_record_targets =>
       \A u \in Users :
          total_penalty'[u] =
            NewTotal(penalty_records', penalty_record_targets', u)]_vars

\* C6: when the target inserts of two issuances to the same user were both
\* uncommitted at the same time, with their sums already read, then once both
\* are committed the user's total_penalty equals the sum of the points of all
\* the user's records.
ConcurrentIssuancesKeepTotal ==
  [][\A u \in Staff, t \in Students :
       ( /\ GiveTargetsCommit(u)
         /\ t \in givePage[u].rivals
         /\ \A v \in Uncommitted \ {u} : t \notin givePage[v].targets )
       => total_penalty'[t] =
            NewTotal(penalty_records', penalty_record_targets', t)]_vars

\* C7: when handleSubmit for N selected students returns after its record was
\* inserted, storage holds either that record with its N target rows and N
\* notifications, or none of the three.
IssuanceAllOrNothing ==
  [][\A u \in Staff :
       (givePage[u].phase # "idle" /\ givePage'[u].phase = "idle") =>
         LET rid == givePage[u].record
             held == {r \in penalty_records' : r.id = rid}
             aimed == {x.user_id : x \in {y \in penalty_record_targets' :
                                              y.record_id = rid}}
             told == {n.user_id : n \in {m \in notifications' :
                                             m.related_id = rid}}
         IN \/ held # {} /\ aimed = givePage[u].targets
                         /\ told = givePage[u].targets
            \/ held = {} /\ aimed = {} /\ told = {}]_vars

\* C17: no step changes the points of a stored penalty record or removes a
\* record or a target row.
AppendOnlyLedger ==
  [][/\ penalty_records \subseteq penalty_records'
     /\ penalty_record_targets \subseteq penalty_record_targets']_vars

\* C18: a handleSubmit call with no student selected, or with no reason
\* selected, writes nothing: no penalty record, no target row and no
\* notification is created by it.
EmptySubmitWritesNothing ==
  [][\A selectedReason \in Reasons, selectedStudents \in SUBSET Students :
       (selectedReason = NoReason \/ selectedStudents = {})
         => ((\E u \in Staff, fails \in BOOLEAN :
                GiveSubmit(u, selectedReason, selectedStudents, fails))
             => UNCHANGED <<penalty_records, penalty_record_targets,
                            notifications, total_penalty>>)]_vars

\* a handleSubmit call has just returned at its first line, with a record of
\* an earlier call stored
EmptySubmitWitness ==
  /\ giveAlert = "returned"
  /\ penalty_records # {}

\* C19: handleSubmit shows the success message only when the record, the
\* target row of every selected student and the notification of every
\* selected student were written; a failed storage step ends in an error alert.
SuccessMeansAllWritten ==
  [][\A u \in Staff :
       (givePage[u].phase # "idle" /\ givePage'[u].phase = "idle"
          /\ giveAlert' = "success") =>
         LET rid == givePage[u].record
         IN /\ \E r \in penalty_records' : r.id = rid
            /\ \A t \in givePage[u].targets :
                  /\ TargetRows(rid, {t}) \subseteq penalty_record_targets'
                  /\ [user_id |-> t, related_id |-> rid] \in notifications']_vars

\* C20: a student changes the status of their own booking only from pending
\* to cancelled: no step of a student moves a booking to approved, rejected or
\* completed, and none cancels a booking whose stored status is not pending.
StudentOnlyCancelsPending ==
  [][\A r \in study_applications, q \in study_applications' :
       (/\ q.seat_id = r.seat_id /\ q.date = r.date /\ q.user_id = r.user_id
        /\ q.status # r.status)
         => (r.status = "pending" /\ q.status = "cancelled")]_vars

\* C21: the public tab gives every viewer, whatever their identity or role,
\* exactly the stored requests shared as public or link whose status is
\* pending or approved.
PublicScopeExact ==
  \A u \in Users :
     ListApplications(outing_applications, u, "public") =
       {r \in outing_applications :
          /\ r.share_type \in {"public", "link"}
          /\ r.status \in {"pending", "approved"}}

\* a student has opened, from the public tab, the link-shared request of
\* another student while a private request is stored too
PublicScopeWitness ==
  /\ \E r \in outing_applications :
        /\ r.id = outingPage[<<"student", 1>>].selectedApp
        /\ r.user_id = <<"student", 2>>
        /\ r.share_type = "link"
  /\ \E r \in outing_applications : r.share_type = "private"

\* the requests of other users that are shared with nobody
OthersPrivate(u) ==
  {r \in outing_applications : r.user_id # u /\ r.share_type = "private"}

\* C22: a student viewer receives in no tab a private request owned by
\* another user, and each tab's list is the one the same storage without the
\* other users' private requests would give.
StudentNeverSeesOthersPrivate ==
  \A u \in Students, tab \in TabType :
     /\ ListApplications(outing_applications, u, tab) \cap OthersPrivate(u) = {}
     /\ ListApplications(outing_applications, u, tab) =
          ListApplications(outing_applications \ OthersPrivate(u), u, tab)

\* a student has opened an own request from the completed tab while another
\* student's private request with a status of that tab is stored
OthersPrivateWitness ==
  /\ \E r \in outing_applications :
        /\ r.id = outingPage[<<"student", 1>>].selectedApp
        /\ r.user_id = <<"student", 1>>
        /\ r.status = "rejected"
  /\ \E r \in OthersPrivate(<<"student", 1>>) : r.status = "cancelled"

\* C27: for a student viewer the my tab and the completed tab split the
\* viewer's own requests: each own request is in exactly one of the two lists
\* (pending and approved in my; completed, rejected and cancelled in
\* completed) and neither list holds another user's request.
MineCompletedPartition ==
  \A u \in Students :
     LET mine == ListApplications(outing_applications, u, "my")
         done == ListApplications(outing_applications, u, "completed")
         own == {r \in outing_applications : r.user_id = u}
     IN /\ mine \cup done = own
        /\ mine \cap done = {}
        /\ mine = {r \in own : r.status \in {"pending", "approved"}}
        /\ done = {r \in own :
                     r.status \in {"completed", "rejected", "cancelled"}}

\* a student with an approved and a cancelled own request has opened the
\* cancelled one
MineCompletedWitness ==
  /\ \E r \in outing_applications :
        /\ r.id = outingPage[<<"student", 1>>].selectedApp
        /\ r.user_id = <<"student", 1>>
        /\ r.status = "cancelled"
  /\ \E r \in outing_applications :
        r.user_id = <<"student", 1>> /\ r.status = "approved"

\* C23: no handler of the pages sets a seat booking or a pass request to
\* completed: starting without completed records, no stored booking and no
\* stored request ever has status completed.
NeverCompleted ==
  /\ \A r \in study_applications : r.status # "completed"
  /\ \A r \in outing_applications : r.status # "completed"

\* a booking has been cancelled and a request has been decided
NeverCompletedWitness ==
  /\ \E r \in study_applications : r.status = "cancelled"
  /\ \E r \in outing_applications : r.status \in {"approved", "rejected"}

\* C24: a decision records who made it.  A request is stored with approved_by
\* unset; approved_by changes, and status becomes approved or rejected, only
\* in a handleApprove step, which stores the deciding teacher or admin; so
\* every approved or rejected request names the staff member of its latest
\* decision and an undecided request names nobody.
ApproverRecorded ==
  [][\A q \in outing_applications' :
       LET old == {r \in outing_applications : r.id = q.id}
       IN /\ (q.status \in {"approved", "rejected"} => q.approved_by \in Staff)
          /\ (old = {} => q.approved_by = NoUser)
          /\ \A r \in old :
                (\/ q.approved_by # r.approved_by
                 \/ (q.status # r.status
                       /\ q.status \in {"approved", "rejected"}))
                  => /\ q.approved_by \in Staff
                     /\ outingPage[q.approved_by].selectedApp = q.id
                     /\ \E approve \in BOOLEAN :
                           OutingApprove(q.approved_by, approve)]_vars

\* a stored request carries a decision made by the admin, whose panel closed
\* without an error
ApproverRecordedWitness ==
  /\ \E r \in outing_applications :
        r.status \in {"approved", "rejected"} /\ r.approved_by = <<"admin", 1>>
  /\ outingPage[<<"admin", 1>>].selectedApp = NoApp
  /\ outingAlert = NoOutingAlert

\* C25: when a student whose booking for the selected date is cancelled, and
\* who holds no other booking for it, applies for a seat without an active
\* booking, the page lets them (canApply) and the insert stores their pending
\* booking; and after a cancel canApply is true exactly when
\* UNIQUE(user_id, date) would accept an insert of the student for that date.
RebookSameStudent ==
  [][\A u \in Students :
       LET d == studyPage[u].selectedDate
       IN /\ \A s \in Seats :
               ( /\ HandleApply(u, s)
                 /\ studyPage[u].myApplication = NoSeat
                 /\ ActiveOfSeat(s, d) = {}
                 /\ ActiveOfUser(u, d) = {}
                 /\ \E r \in study_applications :
                       r.user_id = u /\ r.date = d /\ r.status = "cancelled" )
               => [user_id |-> u, seat_id |-> s, date |-> d,
                   status |-> "pending"] \in study_applications'
          /\ HandleCancel(u)
               => ((studyPage'[u].myApplication = NoSeat)
                    <=> ~UniqueUserDate(study_applications',
                                        [user_id |-> u, date |-> d]))]_vars

\* the stored rows whose status a step changes
StatusChanged ==
  {r \in study_applications :
     \E q \in study_applications' :
        /\ q.seat_id = r.seat_id /\ q.date = r.date /\ q.user_id = r.user_id
        /\ q.status # r.status}

\* C26: handleCancel, which selects rows by (seat_id, date), changes the
\* status of exactly one booking, the caller's own booking for the selected
\* date, and of no booking of another user or of another date.
CancelChangesOwnOnly ==
  [][\A u \in StudyUsers :
       HandleCancel(u) =>
         \E r \in study_applications :
            /\ StatusChanged = {r}
            /\ r.user_id = u
            /\ r.date = studyPage[u].selectedDate]_vars

\* C28: the selected students never hold the same student twice, whatever
\* toggleStudent, toggleAllStudents, the direct-input close and the reset did,
\* so the target rows of an issuance are pairwise distinct in (record, user);
\* and toggling a student twice gives the selection there was before.
SelectionDistinct ==
  LET sel == giveSelect.selectedStudents
  IN /\ \A i, j \in 1..Len(sel) : i # j => sel[i] # sel[j]
     /\ \A i, j \in 1..Len(sel) : i # j => TargetsOf(1)[i] # TargetsOf(1)[j]
     /\ \A k \in 1..NumFetched :
           Range(ToggleStudentUpdate(ToggleStudentUpdate(sel, students[k]),
                                     students[k])) = Range(sel)

\* the selection holds two students, the second of which is the direct input
\* applied on the direct tab
SelectionDistinctWitness ==
  /\ Len(giveSelect.selectedStudents) = 2
  /\ giveSelect.directInputStudents = <<giveSelect.selectedStudents[2]>>
  /\ giveSelect.studentModalTab = "direct"

\* C29: in the auth provider the profile is null whenever the user is null,
\* also when a profile fetch started by an auth event or by initAuth gets its
\* answer after SIGNED_OUT or after signOut.
ProfileOnlyWithUser ==
  authProvider.user = NoUser => authProvider.profile = NoUser

\* C30: in the notification bell unreadCount is the number of notifications
\* of the local list with is_read = false, in every state the initial fetch,
\* the realtime INSERT callbacks, markAsRead and markAllAsRead lead to, and it
\* is never negative.
UnreadCountMatchesList ==
  /\ notificationBell.unreadCount = Unread(notificationBell.notifications)
  /\ notificationBell.unreadCount >= 0

====
